---------------------------- MODULE Spec2Model ----------------------------
(***************************************************************************)
(* A model of mokapot's PSM collection (mokapot/dataset.py: PsmDataset)    *)
(* and of its cross-validation driver (mokapot/brew.py: brew).             *)
(*                                                                         *)
(* A table (pandas DataFrame) is a record [columns, rows]: columns is the  *)
(* sequence of column names, rows the sequence of rows, each row a         *)
(* sequence of cells aligned with columns.  A PsmDataset object is a       *)
(* record [columns, data] holding the column names and the rows of its     *)
(* data attribute.                                                         *)
(***************************************************************************)
EXTENDS Integers, Sequences, FiniteSets, TLC

VARIABLES
    psm_data,       \* the table handed to PsmDataset(...)
    dset,           \* <<>> while no object exists, else <<the PsmDataset>>
    err,            \* the exception that ended the dataset operation, or "none"
    dpc,            \* position of the dataset program
    folds,          \* the folds argument of split / brew
    fdr,            \* the fdr argument of find_best_feature, in percent
    splits,         \* split: the local list splits when the loop starts
    merged,         \* split: whether the branch of line 95 was taken
    train,          \* split: the tuple of train PsmDatasets
    test,           \* split: the tuple of test PsmDatasets
    best,           \* find_best_feature: <<>> or <<the returned triple>>
    psms,           \* brew: the collections, each given by its row count
    test_idx,       \* brew: per collection, per fold, the list of test rows
    max_workers,    \* brew: per run, the max_workers argument
    pc,             \* brew: per run, the position of the main thread
    train_set_data, \* brew: per run, train_set._data of the one yielded object
    gen,            \* brew: per run, folds the generator has yielded
    task,           \* brew: per run and fold, the state of the fold's task
    models_pos,     \* brew: per run, models consumed from the models iterator
    cur,            \* brew: per run, the locals of the running _predict
    out             \* brew: per run, the score vectors returned by _predict

dvars == <<psm_data, dset, err, dpc, folds, fdr, splits, merged, train, test, best>>
bvars == <<psms, test_idx, max_workers, pc, train_set_data, gen, task,
           models_pos, cur, out>>
vars == <<psm_data, dset, err, dpc, folds, fdr, splits, merged, train, test, best,
          psms, test_idx, max_workers, pc, train_set_data, gen, task,
          models_pos, cur, out>>

-----------------------------------------------------------------------------
(* Bounds of the model.                                                    *)

MaxCols == 5        \* columns of a table handed to the constructor
MaxPsms == 3        \* rows of a collection that is split
MaxScan == 2        \* distinct spectrum ids
MaxSplitFolds == 3  \* folds argument of split
MaxBestPsms == 3    \* rows of a collection searched for its best feature
MaxFeat == 2        \* feature columns
MaxVal == 1         \* greatest feature value
MaxColls == 2       \* collections passed to brew
MaxRows == 3        \* rows of a collection passed to brew
MaxFolds == 3       \* folds argument of brew
MaxWorkers == 2     \* max_workers argument of brew
MaxPredictRows == 3 \* rows of the collection handed to _predict
MaxPredictFolds == 3 \* folds of the collection handed to _predict

-----------------------------------------------------------------------------
(* Sequences.                                                              *)

Range(s) == {s[i] : i \in 1..Len(s)}

\* list.index(x): the first position holding x
Index(s, x) == CHOOSE i \in 1..Len(s) : s[i] = x /\ \A j \in 1..(i-1) : s[j] # x

\* lst[a:b] with 0 <= a, b (python slice, 0-based, end exclusive)
Slice(s, a, b) ==
    LET hi == IF b > Len(s) THEN Len(s) ELSE b
    IN  IF a >= hi THEN <<>> ELSE [i \in 1..(hi - a) |-> s[a + i]]

RECURSIVE Concat(_)
\* pd.concat / np.concatenate / sum(lists, []): the parts one after the other
Concat(parts) ==
    IF parts = <<>> THEN <<>> ELSE Head(parts) \o Concat(Tail(parts))

\* DataFrame.sample(frac=1).reset_index(drop=True): every reordering of the rows
Shuffles(s) == {[i \in 1..Len(s) |-> s[p[i]]] : p \in Permutations(1..Len(s))}

SeqsUpTo(S, n) == UNION {[1..m -> S] : m \in 0..n}

-----------------------------------------------------------------------------
(* PsmDataset.__init__ and its properties.                                 *)

\* str.lower() on the column names the model uses
lower(c) ==
    CASE c = "Label" -> "label"
      [] c = "ScanNr" -> "scannr"
      [] c = "Peptide" -> "peptide"
      [] c = "Proteins" -> "proteins"
      [] c = "SpecId" -> "specid"
      [] c = "CalcMass" -> "calcmass"
      [] c = "ExpMass" -> "expmass"
      [] OTHER -> c

required_cols == {"label", "scannr", "peptide", "proteins"}

\* the columns property: the column names in lower case
columns(obj) == [i \in 1..Len(obj.columns) |-> lower(obj.columns[i])]

RenameOff(df_cols, cols) == df_cols

\* lines 34-38: df_cols[cols.index(col_name)] = col_name for the required names
Rename(df_cols, cols) ==
    [j \in 1..Len(df_cols) |->
        IF \E c \in required_cols : Index(cols, c) = j
        THEN CHOOSE c \in required_cols : Index(cols, c) = j
        ELSE df_cols[j]]

\* The outcomes of PsmDataset(table): <<>> when the constructor raises
\* ValueError, else <<obj>>, one per shuffle of the rows.
NewDataset(table) ==
    LET cols    == columns(table)
        df_cols == Rename(table.columns, cols)
    IN  {IF ~(required_cols \subseteq Range(cols))
         THEN <<>>
         ELSE <<[columns |-> df_cols, data |-> shuffled]>>
         : shuffled \in Shuffles(table.rows)}

\* PsmDataset(psm_data)
Construct ==
    /\ dpc = "new"
    /\ \E made \in NewDataset(psm_data) :
          /\ dset' = made
          /\ err' = IF made = <<>> THEN "ValueError" ELSE "none"
          /\ dpc' = IF made = <<>> THEN "raised" ELSE "ready"
    /\ UNCHANGED <<psm_data, folds, fdr, splits, merged, train, test, best>>
    /\ UNCHANGED bvars

-----------------------------------------------------------------------------
(* PsmDataset.split.                                                       *)

\* the value of a row in the column named name
Cell(obj, row, name) == row[Index(obj.columns, name)]

\* the label property: data.label.values
label(obj) == [i \in 1..Len(obj.data) |-> Cell(obj, obj.data[i], "label")]

\* numpy.array_split: section i of k (1-based) holds n div k rows, one more
\* for the first n mod k sections
SectionSize(n, k, i) == IF i <= n % k THEN (n \div k) + 1 ELSE n \div k

RECURSIVE DivPoint(_, _, _)
\* numpy.array_split: div_points = cumsum([0] + section sizes)
DivPoint(n, k, j) == IF j = 0 THEN 0 ELSE DivPoint(n, k, j - 1) + SectionSize(n, k, j)

array_split(ary, k) ==
    [i \in 1..k |-> Slice(ary, DivPoint(Len(ary), k, i - 1), DivPoint(Len(ary), k, i))]

SplitNumOffByOne(obj, k) == (Len(label(obj)) \div k) + 1

\* line 90: num = len(self.label) // folds
SplitNum(obj, k) == Len(label(obj)) \div k

\* line 95: the trailing chunk is smaller than num
MergeNeeded(chunks, num) == Len(chunks[Len(chunks)]) < num

\* lines 96-97: splits[-2] = concat(splits[-2:]); splits = splits[:-1]
MergeLast(chunks) ==
    LET k == Len(chunks)
    IN  [i \in 1..(k - 1) |-> IF i = k - 1 THEN chunks[k - 1] \o chunks[k] ELSE chunks[i]]

TrainSplitWithTest(spl, idx) == Slice(spl, 0, idx - 1) \o Slice(spl, idx - 1, Len(spl))

\* line 103: the chunks handed to pd.concat, splits[:idx] + splits[idx+1:]
\* (idx is 1-based here)
TrainSplit(spl, idx) == Slice(spl, 0, idx - 1) \o Slice(spl, idx, Len(spl))

RECURSIVE Tuples(_)
\* one element of each set of a sequence of sets
Tuples(sets) ==
    IF sets = <<>> THEN {<<>>}
    ELSE {<<h>> \o t : h \in Head(sets), t \in Tuples(Tail(sets))}

\* the objects PsmDataset(rows under the columns of obj) can be; the columns
\* of a constructed object pass the check of line 28 again
Rebuilt(obj, rows) == {d[1] : d \in NewDataset([columns |-> obj.columns, rows |-> rows]) \ {<<>>}}

\* self.split(folds)
Split ==
    /\ dpc = "ready"
    /\ \E k \in 1..MaxSplitFolds :
        LET self   == dset[1]
            num    == SplitNum(self, k)
            chunks == array_split(self.data, k)
            merge  == MergeNeeded(chunks, num)
            spl    == IF merge THEN MergeLast(chunks) ELSE chunks
        IN  /\ folds' = k
            /\ splits' = spl
            /\ merged' = merge
            /\ IF \E idx \in 1..Len(spl) : TrainSplit(spl, idx) = <<>>
               THEN \* pd.concat([]) raises ValueError: No objects to concatenate
                    /\ err' = "ValueError"
                    /\ dpc' = "split_raised"
                    /\ UNCHANGED <<train, test>>
               ELSE /\ test' \in Tuples([idx \in 1..Len(spl) |-> Rebuilt(self, spl[idx])])
                    /\ train' \in Tuples([idx \in 1..Len(spl) |->
                                   Rebuilt(self, Concat(TrainSplit(spl, idx)))])
                    /\ dpc' = "split"
                    /\ UNCHANGED err
    /\ UNCHANGED <<psm_data, dset, fdr, best>>
    /\ UNCHANGED bvars

-----------------------------------------------------------------------------
(* PsmDataset.find_best_feature.                                           *)

\* the features property: the 0-based column range [feat_start, feat_end)
FeatStart(obj) ==
    IF "calcmass" \in Range(columns(obj))
    THEN Index(columns(obj), "calcmass")
    ELSE Index(columns(obj), "scannr")

FeatEnd(obj) == Index(columns(obj), "peptide") - 1

\* the names of the feature columns
FeatNames(obj) == Slice(obj.columns, FeatStart(obj), FeatEnd(obj))

\* the features property: self.data.iloc[:, feat_start:feat_end]
features(obj) ==
    LET feat_start == FeatStart(obj)
        feat_end   == FeatEnd(obj)
    IN  [i \in 1..Len(obj.data) |-> Slice(obj.data[i], feat_start, feat_end)]

\* column j of a feature table, one value per row
FeatColumn(feats, j) == [i \in 1..Len(feats) |-> feats[i][j]]

\* A q-value is a fraction <<numerator, denominator>>.
FracLeq(a, b) == a[1] * b[2] <= b[1] * a[2]

FracMin(S) == CHOOSE a \in S : \A b \in S : FracLeq(a, b)

\* mokapot.qvalues.tdc, target-decoy competition: the FDR at a score
\* threshold is (decoys at or above it + 1) / (targets at or above it), at
\* most 1; the q-value of a row is the least FDR over the thresholds at or
\* below its score.  target holds 1 for a target and 0 for a decoy.
TdcFdr(score, target, v) ==
    LET t == Cardinality({i \in 1..Len(score) : target[i] = 1 /\ score[i] >= v})
        d == Cardinality({i \in 1..Len(score) : target[i] # 1 /\ score[i] >= v})
    IN  IF d + 1 >= t THEN <<1, 1>> ELSE <<d + 1, t>>

tdc(score, target) ==
    LET fdrs == [j \in 1..Len(score) |-> TdcFdr(score, target, score[j])]
    IN  [i \in 1..Len(score) |->
            FracMin({fdrs[j] : j \in {j \in 1..Len(score) : score[j] <= score[i]}})]

\* line 77: the q-values of feature column j, target = (label + 1) / 2
FeatQvals(obj, j) ==
    LET lab == label(obj)
    IN  tdc(FeatColumn(features(obj), j), [i \in 1..Len(lab) |-> (lab[i] + 1) \div 2])

\* lines 78-79: per feature, the targets whose q-value is at most fdr percent
NumPassing(obj, f) ==
    [j \in 1..Len(FeatNames(obj)) |->
        LET qvals == FeatQvals(obj, j)
            lab   == label(obj)
        IN  Cardinality({i \in 1..Len(obj.data) :
                lab[i] = 1 /\ FracLeq(qvals[i], <<f, 100>>)})]

\* Series.idxmax: the first position holding the greatest value
IdxMax(s) == CHOOSE j \in 1..Len(s) :
    /\ \A i \in 1..Len(s) : s[i] <= s[j]
    /\ \A i \in 1..(j - 1) : s[i] < s[j]

\* lines 81-84: targets above fdr at the best feature are relabelled 0
AdjustedTarget(obj, f, bf) ==
    LET qvals == FeatQvals(obj, bf)
        lab   == label(obj)
    IN  [i \in 1..Len(obj.data) |->
            IF lab[i] = 1 /\ ~FracLeq(qvals[i], <<f, 100>>) THEN 0 ELSE lab[i]]

\* self.find_best_feature(fdr)
FindBestFeature ==
    /\ dpc = "ready"
    /\ LET self == dset[1]
       IN  IF FeatNames(self) = <<>>
           THEN \* idxmax of an empty Series raises ValueError
                /\ err' = "ValueError"
                /\ dpc' = "best_raised"
                /\ UNCHANGED best
           ELSE IF \A i \in 1..Len(self.data) : label(self)[i] # 1
           THEN \* tdc has no target to estimate an FDR from
                /\ err' = "TdcError"
                /\ dpc' = "best_raised"
                /\ UNCHANGED best
           ELSE LET num_passing == NumPassing(self, fdr)
                    best_feat == IdxMax(num_passing)
                IN  /\ best' = <<[best_feat |-> FeatNames(self)[best_feat],
                                  num_passing |-> num_passing[best_feat],
                                  target |-> AdjustedTarget(self, fdr, best_feat)]>>
                    /\ dpc' = "best"
                    /\ UNCHANGED err
    /\ UNCHANGED <<psm_data, dset, folds, fdr, splits, merged, train, test>>
    /\ UNCHANGED bvars

-----------------------------------------------------------------------------
(* brew.                                                                   *)
(*                                                                         *)
(* Rows of a collection are numbered from 0 as in the code; collections,   *)
(* folds and runs are numbered from 1.  A training table is the set of its *)
(* rows <<collection, row>>.  An attribute that holds None or a table is   *)
(* <<>> or <<table>>.                                                      *)

Runs == DOMAIN pc

Sequential(r) == max_workers[r] = 1

\* PsmDataset._split(folds): the row numbers of a collection of n rows,
\* shuffled and cut into folds chunks as evenly as possible
SplitIdx(n, k) == {array_split(perm, k) : perm \in Shuffles([i \in 1..n |-> i - 1])}

\* _make_train_sets, lines 137-141: for fold i, the rows j - set(i) of every
\* collection, concatenated
JointTrain(idx, i) ==
    UNION {{<<c, row>> : row \in (0..(psms[c] - 1)) \ Range(idx[c][i])} :
              c \in 1..Len(psms)}

\* _make_train_sets, line 135: zip(*test_idx) ends with the shortest
\* collection
GenFolds(idx) ==
    CHOOSE m \in 0..folds :
        /\ \A c \in 1..Len(idx) : m <= Len(idx[c])
        /\ \/ m = folds
           \/ \E c \in 1..Len(idx) : m = Len(idx[c])

\* brew, lines 100-106: max_workers = 1 takes the builtin map, which fits
\* nothing until the models are iterated; otherwise Executor.map starts to
\* consume the training sets and submit one task per fold
Map ==
    \E r \in Runs :
        /\ pc[r] = "brew"
        /\ pc' = [pc EXCEPT ![r] = IF Sequential(r) THEN "zip"
                                   ELSE IF GenFolds(test_idx) = 0 THEN "shutdown"
                                   ELSE "map_clear"]
        /\ UNCHANGED <<psms, test_idx, max_workers, train_set_data, gen, task,
                       models_pos, cur, out>>
        /\ UNCHANGED dvars

\* _make_train_sets, line 136: train_set._data = None
GenClear ==
    \E r \in Runs :
        /\ pc[r] \in {"map_clear", "pull_clear"}
        /\ train_set_data' = [train_set_data EXCEPT ![r] = <<>>]
        /\ pc' = [pc EXCEPT ![r] = IF pc[r] = "map_clear" THEN "map_build" ELSE "pull_build"]
        /\ UNCHANGED <<psms, test_idx, max_workers, gen, task, models_pos, cur, out>>
        /\ UNCHANGED dvars

\* _make_train_sets, lines 137-142: the table of the next fold is stored in
\* the one train_set object, which is yielded.  Executor.map submits a task
\* holding the object; the builtin map hands it to _fit_model.
GenBuild ==
    \E r \in Runs :
        /\ pc[r] \in {"map_build", "pull_build"}
        /\ train_set_data' = [train_set_data EXCEPT ![r] = <<JointTrain(test_idx, gen[r] + 1)>>]
        /\ gen' = [gen EXCEPT ![r] = gen[r] + 1]
        /\ IF pc[r] = "map_build"
           THEN /\ task' = [task EXCEPT ![r][gen[r] + 1].st = "submitted"]
                /\ pc' = [pc EXCEPT ![r] = IF gen[r] + 1 < GenFolds(test_idx)
                                           THEN "map_clear" ELSE "shutdown"]
           ELSE /\ pc' = [pc EXCEPT ![r] = "fit"]
                /\ UNCHANGED task
        /\ UNCHANGED <<psms, test_idx, max_workers, models_pos, cur, out>>
        /\ UNCHANGED dvars

\* The process pool's queue thread pickles the arguments of a submitted
\* task, in submission order, at a time of its own: the task gets whatever
\* train_set._data holds then.
Pickle ==
    \E r \in Runs : \E i \in 1..folds :
        /\ task[r][i].st = "submitted"
        /\ \A j \in 1..(i - 1) : task[r][j].st # "submitted"
        /\ task' = [task EXCEPT ![r][i].st = "queued", ![r][i].arg = train_set_data[r]]
        /\ UNCHANGED <<psms, test_idx, max_workers, pc, train_set_data, gen,
                       models_pos, cur, out>>
        /\ UNCHANGED dvars

\* _fit_model: model.fit(train_set, ...) on the table the task was given; a
\* train_set without data cannot be fitted.  In a pool the task is run by a
\* worker; under the builtin map it runs inside next(models).
FitModel ==
    \E r \in Runs :
        \/ /\ pc[r] = "fit"
           /\ task' = [task EXCEPT ![r][gen[r]].st = "done",
                                   ![r][gen[r]].arg = train_set_data[r],
                                   ![r][gen[r]].model = train_set_data[r]]
           /\ models_pos' = [models_pos EXCEPT ![r] = models_pos[r] + 1]
           /\ pc' = [pc EXCEPT ![r] = "score"]
           /\ UNCHANGED <<psms, test_idx, max_workers, train_set_data, gen, cur, out>>
           /\ UNCHANGED dvars
        \/ \E i \in 1..folds :
           /\ task[r][i].st = "queued"
           /\ task' = [task EXCEPT ![r][i].st = IF task[r][i].arg = <<>> THEN "failed" ELSE "done",
                                   ![r][i].model = task[r][i].arg]
           /\ UNCHANGED <<psms, test_idx, max_workers, pc, train_set_data, gen,
                          models_pos, cur, out>>
           /\ UNCHANGED dvars

\* brew, line 100: leaving the with block shuts the pool down and waits for
\* every submitted task
Shutdown ==
    \E r \in Runs :
        /\ pc[r] = "shutdown"
        /\ \A i \in 1..folds : task[r][i].st \in {"new", "done", "failed"}
        /\ pc' = [pc EXCEPT ![r] = "zip"]
        /\ UNCHANGED <<psms, test_idx, max_workers, train_set_data, gen, task,
                       models_pos, cur, out>>
        /\ UNCHANGED dvars

\* _predict, line 161: zip(test_idx, models) takes the next fold, then the
\* next model.  The builtin map resumes the generator and fits; the pool's
\* result iterator returns the next task's model or raises its exception.
ZipNext ==
    \E r \in Runs :
        /\ pc[r] = "zip"
        /\ IF cur[r].f = Len(test_idx[cur[r].c]) \/ models_pos[r] = GenFolds(test_idx)
           THEN /\ pc' = [pc EXCEPT ![r] = "assemble"]
                /\ UNCHANGED models_pos
           ELSE IF Sequential(r)
           THEN /\ pc' = [pc EXCEPT ![r] = "pull_clear"]
                /\ UNCHANGED models_pos
           ELSE IF task[r][models_pos[r] + 1].st = "failed"
           THEN /\ pc' = [pc EXCEPT ![r] = "FitError"]
                /\ UNCHANGED models_pos
           ELSE /\ pc' = [pc EXCEPT ![r] = "score"]
                /\ models_pos' = [models_pos EXCEPT ![r] = models_pos[r] + 1]
        /\ UNCHANGED <<psms, test_idx, max_workers, train_set_data, gen, task, cur, out>>
        /\ UNCHANGED dvars

\* _predict, lines 162-163: the score the model gives each row of the
\* fold's test set.  A score is determined by the model (its position in
\* models and the table it was fitted on) and the row.
FoldScores(rows, m, fit) ==
    [p \in 1..Len(rows) |-> [model |-> m, fit |-> fit, row |-> rows[p]]]

\* _predict, lines 162-164: score the fold's test rows with the model
Score ==
    \E r \in Runs :
        /\ pc[r] = "score"
        /\ LET fold == test_idx[cur[r].c][cur[r].f + 1]
               mod  == task[r][models_pos[r]].model[1]
           IN  cur' = [cur EXCEPT ![r].f = cur[r].f + 1,
                                  ![r].scores = Append(cur[r].scores,
                                                   FoldScores(fold, models_pos[r], mod))]
        /\ pc' = [pc EXCEPT ![r] = "zip"]
        /\ UNCHANGED <<psms, test_idx, max_workers, train_set_data, gen, task,
                       models_pos, out>>
        /\ UNCHANGED dvars

ArgSortIdentity(s) == [p \in 1..Len(s) |-> p]

\* numpy.argsort: the positions of s in ascending order of their values
ArgSort(s) ==
    [p \in 1..Len(s) |->
        CHOOSE q \in 1..Len(s) :
            Cardinality({x \in 1..Len(s) : s[x] < s[q] \/ (s[x] = s[q] /\ x < q)}) = p - 1]

\* _predict, lines 166-167: np.concatenate(scores)[rev_idx]
Reassemble(idx, scores) ==
    LET rev_idx == ArgSort(Concat(idx))
        conc    == Concat(scores)
    IN  [p \in 1..Len(rev_idx) |-> conc[rev_idx[p]]]

\* _predict, lines 166-167, and brew, lines 108-115: the scores of the
\* collection are put back in row order; with no scores np.concatenate
\* raises ValueError, with too few the indexing raises IndexError.  Then the
\* next collection is scored, or brew returns.
Assemble ==
    \E r \in Runs :
        /\ pc[r] = "assemble"
        /\ LET idx  == test_idx[cur[r].c]
               conc == Concat(cur[r].scores)
           IN  IF cur[r].scores = <<>>
               THEN /\ pc' = [pc EXCEPT ![r] = "ValueError"]
                    /\ UNCHANGED <<cur, out>>
               ELSE IF Len(conc) < Len(Concat(idx))
               THEN /\ pc' = [pc EXCEPT ![r] = "IndexError"]
                    /\ UNCHANGED <<cur, out>>
               ELSE /\ out' = [out EXCEPT ![r] = Append(out[r], Reassemble(idx, cur[r].scores))]
                    /\ IF cur[r].c = Len(psms)
                       THEN /\ pc' = [pc EXCEPT ![r] = "done"]
                            /\ UNCHANGED cur
                       ELSE /\ pc' = [pc EXCEPT ![r] = "zip"]
                            /\ cur' = [cur EXCEPT ![r] = [c |-> cur[r].c + 1, f |-> 0,
                                                          scores |-> <<>>]]
        /\ UNCHANGED <<psms, test_idx, max_workers, train_set_data, gen, task, models_pos>>
        /\ UNCHANGED dvars

-----------------------------------------------------------------------------
(* Initial states.                                                         *)

NoBrew ==
    /\ psms = <<>>
    /\ test_idx = <<>>
    /\ max_workers = <<>>
    /\ pc = <<>>
    /\ train_set_data = <<>>
    /\ gen = <<>>
    /\ task = <<>>
    /\ models_pos = <<>>
    /\ cur = <<>>
    /\ out = <<>>

NoResult ==
    /\ dset = <<>>
    /\ err = "none"
    /\ dpc = "new"
    /\ splits = <<>>
    /\ merged = FALSE
    /\ train = <<>>
    /\ test = <<>>
    /\ best = <<>>

ColNames == {"label", "Label", "scannr", "ScanNr", "peptide", "Peptide",
             "proteins", "Proteins", "SpecId"}

\* A table with any header over ColNames and one row.
InitSchema ==
    /\ \E header \in SeqsUpTo(ColNames, MaxCols) :
          psm_data = [columns |-> header,
                      rows |-> <<[j \in 1..Len(header) |-> 0]>>]
    /\ folds = 0
    /\ fdr = 0
    /\ NoResult
    /\ NoBrew

NextSchema == Construct

SpecSchema == InitSchema /\ [][NextSchema]_vars

PinHeader == <<"SpecId", "Label", "ScanNr", "Peptide", "Proteins">>

\* A PIN table of up to MaxPsms target rows, each with a spectrum id.
InitSplit ==
    /\ \E n \in 0..MaxPsms : \E scan \in [1..n -> 1..MaxScan] :
          psm_data = [columns |-> PinHeader,
                      rows |-> [i \in 1..n |-> <<i, 1, scan[i], 0, 0>>]]
    /\ folds = 0
    /\ fdr = 0
    /\ NoResult
    /\ NoBrew

NextSplit == Construct \/ Split

SpecSplit == InitSplit /\ [][NextSplit]_vars

\* the headers of a PIN file and of a Crux PIN file with nf feature columns
FeatureCols(nf) == [j \in 1..nf |-> IF j = 1 THEN "feat1" ELSE IF j = 2 THEN "feat2" ELSE "feat3"]

PinHeaderWith(nf) == <<"SpecId", "Label", "ScanNr">> \o FeatureCols(nf) \o <<"Peptide", "Proteins">>

CruxHeaderWith(nf) ==
    <<"SpecId", "Label", "ScanNr", "ExpMass", "CalcMass">> \o FeatureCols(nf)
        \o <<"Peptide", "Proteins">>

\* train_fdr values, in percent
FdrValues == {1, 50}

\* A PIN table of targets (label 1) and decoys (label -1) with feature values.
InitBest ==
    /\ \E n \in 0..MaxBestPsms : \E nf \in 0..MaxFeat : \E crux \in BOOLEAN :
       \E lab \in [1..n -> {1, -1}] : \E val \in [1..n -> [1..nf -> 0..MaxVal]] :
          psm_data = [columns |-> IF crux THEN CruxHeaderWith(nf) ELSE PinHeaderWith(nf),
                      rows |-> [i \in 1..n |->
                          <<i, lab[i], 7>> \o (IF crux THEN <<9, 9>> ELSE <<>>)
                              \o val[i] \o <<0, 0>>]]
    /\ folds = 0
    /\ fdr \in FdrValues
    /\ NoResult
    /\ NoBrew

NextBest == Construct \/ FindBestFeature

SpecBest == InitBest /\ [][NextBest]_vars

NoDataset ==
    /\ psm_data = [columns |-> <<>>, rows |-> <<>>]
    /\ fdr = 0
    /\ NoResult

\* the state of every run when brew is entered
BrewEntry(workers) ==
    /\ max_workers = workers
    /\ pc = [r \in DOMAIN workers |-> "brew"]
    /\ train_set_data = [r \in DOMAIN workers |-> <<>>]
    /\ gen = [r \in DOMAIN workers |-> 0]
    /\ task = [r \in DOMAIN workers |->
                  [i \in 1..folds |-> [st |-> "new", arg |-> <<>>, model |-> <<>>]]]
    /\ models_pos = [r \in DOMAIN workers |-> 0]
    /\ cur = [r \in DOMAIN workers |-> [c |-> 1, f |-> 0, scores |-> <<>>]]
    /\ out = [r \in DOMAIN workers |-> <<>>]

\* brew's inputs: the collections and the folds _split gives each of them
BrewInputs ==
    /\ folds \in 2..MaxFolds
    /\ \E nc \in 1..MaxColls : psms \in [1..nc -> 2..MaxRows]
    /\ test_idx \in {idx \in [1..Len(psms) -> UNION {SplitIdx(n, folds) : n \in 2..MaxRows}] :
                        \A c \in 1..Len(psms) : idx[c] \in SplitIdx(psms[c], folds)}

\* One run of brew, with any max_workers.
Init ==
    /\ BrewInputs
    /\ \E w \in 1..MaxWorkers : BrewEntry(<<w>>)
    /\ NoDataset

Next == Map \/ GenClear \/ GenBuild \/ Pickle \/ FitModel \/ Shutdown
            \/ ZipNext \/ Score \/ Assemble

Spec == Init /\ [][Next]_vars

\* Two runs of brew on the same collections and folds: run 1 with
\* max_workers = 1, run 2 with a process pool.
InitPool ==
    /\ BrewInputs
    /\ \E w \in 2..MaxWorkers : BrewEntry(<<1, w>>)
    /\ NoDataset

SpecPool == InitPool /\ [][Next]_vars

\* every way to deal the rows 0..n-1 into k lists, in any order
Foldings(n, k) ==
    {[i \in 1..k |-> Slice(perm, cuts[i], cuts[i + 1])] :
        perm \in Shuffles([i \in 1..n |-> i - 1]),
        cuts \in {c \in [1..(k + 1) -> 0..n] :
                    /\ c[1] = 0
                    /\ c[k + 1] = n
                    /\ \A i \in 1..k : c[i] <= c[i + 1]}}

\* _predict entered for one collection with a fitted model per fold: the
\* models a pool returned, each fitted on its fold's training table.
InitPredict ==
    /\ folds \in 2..MaxPredictFolds
    /\ \E n \in 1..MaxPredictRows :
          /\ psms = <<n>>
          /\ \E idx \in Foldings(n, folds) : test_idx = <<idx>>
    /\ max_workers = <<2>>
    /\ pc = <<"zip">>
    /\ gen = <<folds>>
    /\ train_set_data = <<<<JointTrain(test_idx, folds)>>>>
    /\ task = <<[i \in 1..folds |->
                   [st |-> "done", arg |-> <<JointTrain(test_idx, i)>>,
                    model |-> <<JointTrain(test_idx, i)>>]]>>
    /\ models_pos = <<0>>
    /\ cur = <<[c |-> 1, f |-> 0, scores |-> <<>>]>>
    /\ out = <<<<>>>>
    /\ NoDataset

NextPredict == ZipNext \/ Score \/ Assemble

SpecPredict == InitPredict /\ [][NextPredict]_vars

-----------------------------------------------------------------------------
(* Properties of PsmDataset.__init__ and PsmDataset.split.                 *)

\* the header of the input table lacks a required column, compared
\* case-insensitively
MissingRequired ==
    ~(required_cols \subseteq {lower(c) : c \in Range(psm_data.columns)})

\* C7: constructing a PsmDataset from a table that lacks, case-insensitively,
\* one of label, scannr, peptide, proteins ends in an error and yields no
\* object; every object that is constructed has each of the four columns
\* under its exact lowercase name.
C7_SchemaEnforced ==
    /\ (dpc # "new" /\ MissingRequired) => (dset = <<>> /\ err = "ValueError")
    /\ dset # <<>> => required_cols \subseteq Range(dset[1].columns)

\* an object constructed from a header that spells required columns in
\* mixed case, one of them twice
C7_Witness ==
    /\ dset # <<>>
    /\ psm_data.columns = <<"Label", "ScanNr", "label", "Peptide", "proteins">>

Rows(obj) == Range(obj.data)

\* C3: all rows that share a spectrum id land in the same test partition.
C3_SpectrumInOneFold ==
    dpc = "split" =>
        \A i \in 1..Len(test) : \A j \in 1..Len(test) :
            \A a \in Rows(test[i]) : \A b \in Rows(test[j]) :
                Cell(test[i], a, "scannr") = Cell(test[j], b, "scannr") => i = j

\* C4: for k >= 2 the test partitions of split(k) are pairwise disjoint and
\* cover the collection, and train partition i holds exactly the rows that
\* are not in test partition i.
C4_SplitPartitions ==
    (dpc \in {"split", "split_raised"} /\ folds >= 2) =>
        /\ dpc = "split"
        /\ Len(test) = Len(train)
        /\ \A i \in 1..Len(test) : \A j \in 1..Len(test) :
               i # j => Rows(test[i]) \cap Rows(test[j]) = {}
        /\ UNION {Rows(test[i]) : i \in 1..Len(test)} = Rows(dset[1])
        /\ \A i \in 1..Len(test) :
               /\ Rows(train[i]) = Rows(dset[1]) \ Rows(test[i])
               /\ Len(test[i].data) = Cardinality(Rows(test[i]))
               /\ Len(train[i].data) = Cardinality(Rows(train[i]))

\* three rows split into three folds
C4_Witness ==
    /\ dpc = "split"
    /\ folds = 3
    /\ Len(dset[1].data) = 3
    /\ Len(test) = 3

\* the even split of array_split: the last chunk holds n div k rows, the
\* branch of line 95 is not taken, and chunk sizes differ by at most one
EvenSplit ==
    LET n == Len(dset[1].data)
    IN  /\ ~merged
        /\ Len(splits) = folds
        /\ Len(splits[folds]) = n \div folds
        /\ \A i \in 1..folds : \A j \in 1..folds :
               Len(splits[i]) - Len(splits[j]) <= 1

\* C10 as stated: for every k >= 1 the trailing chunk is never merged and
\* split yields exactly k test partitions whose sizes differ by at most one.
C10_AlwaysKPartitions ==
    dpc \in {"split", "split_raised"} =>
        /\ EvenSplit
        /\ Len(test) = folds
        /\ \A i \in 1..folds : Len(test[i].data) = Len(splits[i])

\* C10 amended: for every k >= 1 the trailing chunk is never merged; for
\* k >= 2 split yields exactly k test partitions whose sizes differ by at
\* most one; for k = 1 split raises ValueError (the train chunk list handed
\* to pd.concat is empty) and yields no partition.
C10_NeverMerged ==
    dpc \in {"split", "split_raised"} =>
        /\ EvenSplit
        /\ folds >= 2 =>
               /\ dpc = "split"
               /\ Len(test) = folds
               /\ \A i \in 1..folds : Len(test[i].data) = Len(splits[i])
        /\ folds = 1 => (dpc = "split_raised" /\ err = "ValueError" /\ test = <<>>)

\* an uneven split: three rows in two folds
C10_Witness ==
    /\ dpc = "split"
    /\ folds = 2
    /\ Len(dset[1].data) = 3
    /\ Len(test[1].data) = 2
    /\ Len(test[2].data) = 1

\* no feature has a target whose q-value is at most fdr
NoPassingTarget ==
    \A j \in 1..Len(FeatNames(dset[1])) : NumPassing(dset[1], fdr)[j] = 0

\* C6: when no feature has any passing target, find_best_feature ends in an
\* error and returns no feature.
C6_NoDirectionIsError ==
    (dpc \in {"best", "best_raised"} /\ NoPassingTarget) =>
        (dpc = "best_raised" /\ err # "none" /\ best = <<>>)

-----------------------------------------------------------------------------
(* Properties of brew.                                                     *)

\* brew has returned or raised
Finished(r) == pc[r] \in {"done", "ValueError", "IndexError", "FitError"}

\* a fold task is over: its model is fitted or its fit has failed
TaskOver(r, i) == task[r][i].st \in {"done", "failed"}

\* the rows of every collection outside the collection's fold-i test set
OutsideFold(i) ==
    {cr \in UNION {{<<c, row>> : row \in 0..(psms[c] - 1)} : c \in 1..Len(psms)} :
        \A p \in 1..Len(test_idx[cr[1]][i]) : test_idx[cr[1]][i][p] # cr[2]}

\* every score computed so far in run r, with the collection of its row
ScoresOf(r) ==
    UNION ({{[c |-> c, s |-> out[r][c][p]] : p \in 1..Len(out[r][c])} : c \in 1..Len(out[r])}
           \cup {{[c |-> cur[r].c, s |-> cur[r].scores[f][p]] :
                     p \in 1..Len(cur[r].scores[f])} : f \in 1..Len(cur[r].scores)})

\* C1: with N >= 2 collections brew completes and returns N score vectors,
\* the j-th with one entry per row of collection j, in row order.
C1_EveryCollectionScored ==
    \A r \in Runs :
        (Len(psms) >= 2 /\ Finished(r)) =>
            /\ pc[r] = "done"
            /\ Len(out[r]) = Len(psms)
            /\ \A c \in 1..Len(psms) :
                   /\ Len(out[r][c]) = psms[c]
                   /\ \A p \in 1..psms[c] : out[r][c][p].row = p - 1

\* C2: the model of fold i is fitted on exactly the rows of every
\* collection outside the fold-i test set, whatever max_workers is, and no
\* row is scored by a model that was fitted on it.
C2_FoldFitsOwnTable ==
    \A r \in Runs :
        /\ \A i \in 1..folds :
               task[r][i].st = "done" => task[r][i].model = <<OutsideFold(i)>>
        /\ \A e \in ScoresOf(r) : <<e.c, e.s.row>> \notin e.s.fit

\* C9: no test row is scored before the fit of every fold's model is over.
C9_AllFitsBeforeScoring ==
    \A r \in Runs :
        ScoresOf(r) # {} => \A i \in 1..folds : TaskOver(r, i)

\* C5: the run with max_workers = 1 (run 1) and the run with a process pool
\* (run 2) fit every fold model on the same table and return the same score
\* vectors.
C5_PoolSizeInvariance ==
    /\ \A i \in 1..folds :
           (TaskOver(1, i) /\ TaskOver(2, i)) => task[1][i].model = task[2][i].model
    /\ (Finished(1) /\ Finished(2)) => (pc[1] = pc[2] /\ out[1] = out[2])

\* C8: for one collection whose folds deal its rows 0..n-1 out once each,
\* _predict returns n scores, position r holding the score that the model
\* of the fold whose test list contains r gave row r.
C8_PredictRestoresRowOrder ==
    \A r \in Runs :
        (Len(psms) = 1 /\ out[r] # <<>>) =>
            /\ Len(out[r][1]) = psms[1]
            /\ Len(Concat(cur[r].scores)) = psms[1]
            /\ \A row \in 0..(psms[1] - 1) :
                   LET e == out[r][1][row + 1]
                   IN  /\ e.row = row
                       /\ \E p \in 1..Len(test_idx[1][e.model]) :
                              test_idx[1][e.model][p] = row
                       /\ e.fit = task[r][e.model].model[1]

\* _predict has returned for three rows dealt to the folds out of order
C8_Witness ==
    /\ pc = <<"done">>
    /\ psms = <<3>>
    /\ test_idx = <<<< <<2, 0>>, <<1>> >>>>
    /\ Len(out[1][1]) = 3

=============================================================================
